---- MODULE Spec2Model ----
(***************************************************************************)
(* A model of the example components of the React interview notes and of   *)
(* the part of the React 18 runtime they rely on, as the notes state it:   *)
(* update queues with lanes, batched rendering, the commit timeline        *)
(* (insertion effects, DOM mutation, layout effects, paint, passive        *)
(* effects), effect dependencies and cleanup, transitions and deferred     *)
(* values, useMemo / reselect caches, and the Suspense resource of         *)
(* fetchUser.                                                              *)
(*                                                                         *)
(* One example is mounted at the root at a time (each example is a         *)
(* standalone file or snippet, none imports another): `example` names it.  *)
(***************************************************************************)
EXTENDS Integers, Sequences, FiniteSets, TLC

VARIABLES
    example,   \* the component mounted at the root
    life,      \* "new" (constructed, not rendered), "mounted", "unmounted"
    props,     \* the props of the latest render
    hooks,     \* committed hook cells: useState, useRef and useMemo cells
    queue,     \* pending state updates, in the order they were dispatched
    wip,       \* work in progress of an interruptible (transition) render
    passive,   \* useEffect callbacks scheduled by the last commit, not yet run
    painted,   \* whether the browser has painted the last commit
    log,       \* the timeline of the last commit
    env,       \* the browser: timers, fetches, document.title, redux store
    hist,      \* history: counts of events, renders, effect runs
    resource,  \* the closure variables of fetchUser(): status, result
    selector   \* the cache of the reselect selector selectUserName

vars == <<example, life, props, hooks, queue, wip, passive, painted, log,
          env, hist, resource, selector>>

\* Bounds of the model.
MaxEvents == 2
MaxParentRenders == 2
ListLength == 3
MaxNum == 3

----------------------------------------------------------------------------
(* The React runtime: update queues, lanes, batched processing.            *)

\* Discrete events (clicks, input) are urgent; timers and promise callbacks
\* are default priority; updates inside startTransition are non-urgent. An
\* update dispatched by a layout effect is flushed before the browser paints.
LanePriority(l) ==
    CASE l = "layout" -> 0
      [] l = "sync" -> 1
      [] l = "default" -> 2
      [] l = "transition" -> 3

\* One dispatched update: setX(fn) or setX(value) on one hook cell.
Upd(h, o, a, l) == [hook |-> h, op |-> o, arg |-> a, lane |-> l]

\* setCount(c => c + 1), setFlag(f => !f), setX(value).
ApplyUpdate(cells, u) ==
    [cells EXCEPT ![u.hook] =
        CASE u.op = "inc" -> @ + 1
          [] u.op = "not" -> ~@
          [] OTHER -> u.arg]

RECURSIVE ApplyAll(_, _)
ApplyAll(cells, q) ==
    IF q = <<>> THEN cells ELSE ApplyAll(ApplyUpdate(cells, Head(q)), Tail(q))

\* The lane the next render works on: the most urgent one that is pending.
NextLaneWrong(q) ==
    CHOOSE l \in {q[i].lane : i \in DOMAIN q} :
        \A i \in DOMAIN q : LanePriority(l) >= LanePriority(q[i].lane)

NextLane(q) ==
    CHOOSE l \in {q[i].lane : i \in DOMAIN q} :
        \A i \in DOMAIN q : LanePriority(l) <= LanePriority(q[i].lane)

\* A render in progress is interrupted by a new update: its work is
\* discarded and done again later; the queue still holds every update.
Interrupt(q, w) == q

\* A render that cancels the less urgent updates it does not work on.
ProcessUpdatesCancelsRest(cells, q) ==
    [cells |-> ApplyAll(cells, SelectSeq(q, LAMBDA u : u.lane = NextLane(q))),
     queue |-> <<>>]

\* React 17 outside of event handlers: every update is rendered on its own.
ProcessUpdatesUnbatched(cells, q) ==
    [cells |-> ApplyUpdate(cells, Head(q)), queue |-> Tail(q)]

\* One render: every pending update of the lane is applied (batching); the
\* updates of less urgent lanes stay queued.
ProcessUpdates(cells, q) ==
    [cells |-> ApplyAll(cells, SelectSeq(q, LAMBDA u : u.lane = NextLane(q))),
     queue |-> SelectSeq(q, LAMBDA u : u.lane # NextLane(q))]

----------------------------------------------------------------------------
(* Strings, as sequences of characters.                                    *)

ToLowerChar(c) ==
    CASE c = "A" -> "a" [] c = "B" -> "b" [] c = "E" -> "e" [] c = "F" -> "f"
      [] c = "I" -> "i" [] c = "K" -> "k" [] c = "M" -> "m" [] c = "T" -> "t"
      [] OTHER -> c

\* String.prototype.toLowerCase
ToLowerCase(s) == [i \in DOMAIN s |-> ToLowerChar(s[i])]

\* String.prototype.includes: t occurs in s as a substring.
Includes(s, t) ==
    \E i \in 0..(Len(s) - Len(t)) : SubSeq(s, i + 1, i + Len(t)) = t

\* The UTF-16 code unit of a character.
CharCode(c) ==
    CASE c = "B" -> 66 [] c = "a" -> 97 [] c = "b" -> 98 [] c = "c" -> 99

\* s < t as Array.prototype.sort compares strings by default.
RECURSIVE StringLess(_, _)
StringLess(s, t) ==
    IF t = <<>> THEN FALSE
    ELSE IF s = <<>> THEN TRUE
    ELSE IF CharCode(Head(s)) # CharCode(Head(t))
         THEN CharCode(Head(s)) < CharCode(Head(t))
         ELSE StringLess(Tail(s), Tail(t))

RECURSIVE InsertSorted(_, _)
InsertSorted(x, s) ==
    IF s = <<>> THEN <<x>>
    ELSE IF StringLess(x, Head(s)) THEN <<x>> \o s
    ELSE <<Head(s)>> \o InsertSorted(x, Tail(s))

\* [...items].sort()
RECURSIVE SortStrings(_)
SortStrings(s) ==
    IF s = <<>> THEN <<>> ELSE InsertSorted(Head(s), SortStrings(Tail(s)))

Digit(i) ==
    CASE i = 1 -> "1" [] i = 2 -> "2" [] i = 3 -> "3" [] i = 4 -> "4" [] OTHER -> "5"

----------------------------------------------------------------------------
(* The examples.                                                           *)

BatchExamples == {"AutoBatchingExample", "CounterNew", "CounterAsync"}
FunctionalTimers == {"TimerFixed", "Timer"}
TimerExamples == {"TimerStale", "TimerWithRef"} \cup FunctionalTimers
TransitionExamples == {"TransitionExample", "SearchBox", "ProductSearch"}
TypingExamples == TransitionExamples \cup {"SearchDeferred"}
ClickCounters == {"UseEffectExample", "AllThreeEffects", "CounterHook"}
EffectExamples == {"UseEffectExample", "UseLayoutEffectExample",
                   "UseInsertionEffectExample", "AllThreeEffects"}
MemoExamples == {"ExpensiveList", "ExpensiveCalculation", "List"}
HookExamples == BatchExamples \cup TimerExamples \cup TypingExamples
                \cup EffectExamples \cup {"CounterHook"} \cup MemoExamples

Examples == HookExamples \cup {"selectUserName", "AppWithData"}

\* Examples whose parent re-renders them, with new props or the same.
ParentDriven == MemoExamples \cup {"CounterHook"}
\* Examples that are unmounted in the model.
Unmountable == TimerExamples \cup {"CounterHook"}

\* The name of the counter cell: Timer calls it seconds.
CountHook(ex) == IF ex = "Timer" THEN "seconds" ELSE "count"

\* The name of the cell set inside startTransition.
ListHook(ex) == IF ex = "TransitionExample" THEN "list" ELSE "filtered"

\* bigList: "Item 1", "Item 2", ... (the first ListLength of the 5000).
BigList == [i \in 1..ListLength |-> <<"I", "t", "e", "m", " ", Digit(i)>>]

\* Arrays are objects: a reference and the contents behind it. Props and
\* state are never mutated in place, so a reference fixes its contents.
ArrayRefs == {"arrA", "arrB", "arrC"}
ArrayContents(ref) ==
    CASE ref = "arrA" -> << <<"b">>, <<"a", "b">>, <<"B">> >>
      [] ref = "arrB" -> << <<"b">>, <<"a", "b">>, <<"B">> >>
      [] ref = "arrC" -> << <<"c">>, <<"a">> >>

UserRefs == {"userA", "userB", "userC"}
UserObject(ref) ==
    CASE ref = "userA" -> [name |-> "Ann"]
      [] ref = "userB" -> [name |-> "Ann"]
      [] ref = "userC" -> [name |-> "Bob"]

\* What the user can type into the inputs.
InputValues == {<<>>, <<"i">>, <<"T", "E">>, <<"2">>}

\* The values of the filter prop of List.
FilterValues == {<<>>, <<"b">>}

\* The props a parent may pass.
PropsOf(ex) ==
    CASE ex = "SearchBox" ->
            {[items |-> << <<"K", "i", "t", "e">>, <<"T", "e", "a">>, <<"F", "i", "g", "2">> >>]}
      [] ex = "SearchDeferred" ->
            {[items |-> << <<"K", "i", "t", "e">>, <<"T", "e", "a">>, <<"F", "i", "g", "2">> >>]}
      [] ex = "ProductSearch" ->
            {[products |-> << [id |-> 1, name |-> <<"K", "i", "t", "e">>],
                              [id |-> 2, name |-> <<"T", "E", "A">>],
                              [id |-> 3, name |-> <<"M", "k", "2">>] >>]}
      [] ex = "ExpensiveList" -> {[items |-> r] : r \in ArrayRefs}
      [] ex = "ExpensiveCalculation" -> {[num |-> n] : n \in 0..MaxNum}
      [] ex = "List" -> {[items |-> r, filter |-> f] : r \in ArrayRefs, f \in FilterValues}
      [] OTHER -> {<<>>}

\* The list an example filters, and the text of one of its items.
SourceList(ex, p) ==
    CASE ex = "TransitionExample" -> BigList
      [] ex = "ProductSearch" -> p.products
      [] OTHER -> p.items

ItemText(ex, item) == IF ex = "ProductSearch" THEN item.name ELSE item

\* source.filter(item => text(item).toLowerCase().includes(value.toLowerCase()))
FilterList(ex, p, value) ==
    SelectSeq(SourceList(ex, p),
              LAMBDA item : Includes(ToLowerCase(ItemText(ex, item)), ToLowerCase(value)))

\* const fib = (n) => (n <= 1 ? 1 : fib(n - 1) + fib(n - 2))
RECURSIVE fib(_)
fib(n) == IF n <= 1 THEN 1 ELSE fib(n - 1) + fib(n - 2)

\* The dependency array of the useMemo call of an example.
MemoDeps(ex, p) ==
    CASE ex = "ExpensiveList" -> <<p.items>>
      [] ex = "ExpensiveCalculation" -> <<p.num>>
      [] ex = "List" -> <<p.items, p.filter>>

\* The computation the useMemo call wraps.
MemoFactory(ex, p) ==
    CASE ex = "ExpensiveList" -> SortStrings(ArrayContents(p.items))
      [] ex = "ExpensiveCalculation" -> fib(p.num)
      [] ex = "List" ->
            SelectSeq(ArrayContents(p.items), LAMBDA i : Includes(i, p.filter))

\* A memo that looks at its first dependency only.
UseMemoFirstDepOnly(cell, deps, value, first) ==
    IF first \/ deps[1] # cell.deps[1]
    THEN [deps |-> deps, value |-> value, runs |-> cell.runs + 1]
    ELSE cell

\* useMemo(factory, deps): the factory runs in the first render and when a
\* dependency differs from the previous render's; else the cached value is
\* returned. runs counts the executions of the factory.
UseMemo(cell, deps, value, first) ==
    IF first \/ deps # cell.deps
    THEN [deps |-> deps, value |-> value, runs |-> cell.runs + 1]
    ELSE cell

\* The useState / useRef / useMemo cells before the first render.
InitialHooks(ex, p) ==
    CASE ex = "AutoBatchingExample" -> [count |-> 0, flag |-> FALSE]
      [] ex = "CounterNew" -> [count1 |-> 0, count2 |-> 0]
      [] ex = "Timer" -> [seconds |-> 0]
      [] ex = "TimerWithRef" -> [count |-> 0, countRef |-> 0]
      [] ex = "TransitionExample" ->
            [query |-> <<>>, list |-> SourceList(ex, p), isPending |-> FALSE,
             queryGen |-> 0, listGen |-> 0]
      [] ex \in TransitionExamples ->
            [query |-> <<>>, filtered |-> SourceList(ex, p), isPending |-> FALSE,
             queryGen |-> 0, listGen |-> 0]
      [] ex = "SearchDeferred" -> [query |-> <<>>, deferredQuery |-> <<>>]
      [] ex = "UseLayoutEffectExample" -> [width |-> 0]
      [] ex = "UseInsertionEffectExample" -> <<>>
      [] ex \in MemoExamples -> [memo |-> [deps |-> <<>>, value |-> <<>>, runs |-> 0]]
      [] OTHER -> [count |-> 0]

InitialEnv(ex) ==
    CASE ex = "AutoBatchingExample" -> [fetch |-> "none"]
      [] ex = "CounterAsync" -> [timeouts |-> 0]
      [] ex = "TimerStale" -> [interval |-> FALSE, closureCount |-> 0]
      [] ex \in TimerExamples -> [interval |-> FALSE]
      [] ex \in {"UseEffectExample", "CounterHook"} -> [title |-> <<>>]
      [] ex = "selectUserName" -> [store |-> [user |-> "userA", txn |-> 0]]
      [] ex = "AppWithData" -> [chain |-> "fetching"]
      [] OTHER -> <<>>

InitialHist(ex) ==
    [events |-> 0, renders |-> 0] @@
    (CASE ex \in BatchExamples -> [batches |-> 0]
       [] ex \in TimerExamples -> [lateTicks |-> 0]
       [] ex \in TypingExamples -> [typed |-> <<>>]
       [] ex = "CounterHook" ->
            [titleRuns |-> 0, mountRuns |-> 0, cleanupRuns |-> 0,
             countChanges |-> 0, parentRenders |-> 0]
       [] ex \in MemoExamples -> [parentRenders |-> 0, prevDeps |-> <<>>, prevRuns |-> 0]
       [] ex = "selectUserName" ->
            [callUser |-> "none", prevUser |-> "none", prevRecomputations |-> 0]
       [] ex = "AppWithData" ->
            [lastRead |-> [kind |-> "none", value |-> "none", chain |-> "none"],
             firstReturn |-> "none", settles |-> 0]
       [] OTHER -> <<>>)

\* The component function run with the given cells and props.
RenderBody(ex, cells, p, first) ==
    IF ex \in MemoExamples
    THEN [cells EXCEPT !.memo = UseMemo(@, MemoDeps(ex, p), MemoFactory(ex, p), first)]
    ELSE cells

\* useDeferredValue(query): a render that sees a new value keeps showing the
\* old one and schedules a non-urgent re-render with the new one.
RenderUpdates(ex, cells) ==
    IF ex = "SearchDeferred" /\ cells.query # cells.deferredQuery
    THEN <<Upd("deferredQuery", "set", cells.query, "transition")>>
    ELSE <<>>

\* The offsetWidth of the box of UseLayoutEffectExample (width: "200px").
BoxWidth == 200

\* Updates dispatched by the layout effects of a commit:
\* setWidth(boxRef.current.offsetWidth) in the [] layout effect.
LayoutUpdates(ex, first) ==
    IF ex = "UseLayoutEffectExample" /\ first
    THEN <<Upd("width", "set", BoxWidth, "layout")>>
    ELSE <<>>

\* An effect that ignores its dependency array.
DepsAlwaysChanged(old, new, h) == TRUE

\* Whether a dependency of an effect changed between two renders.
DepsChanged(old, new, h) == old[h] # new[h]

\* The useEffect callbacks a commit schedules, in declaration order: an
\* effect with [] runs after the first render only, one with [count] after
\* the first render and after each render in which count changed.
EffectsScheduled(ex, old, new, first) ==
    CASE ex = "AutoBatchingExample" -> IF first THEN <<"fetch">> ELSE <<>>
      [] ex = "TimerStale" -> IF first THEN <<"staleInterval">> ELSE <<>>
      [] ex \in FunctionalTimers -> IF first THEN <<"interval">> ELSE <<>>
      [] ex = "TimerWithRef" ->
            (IF first \/ DepsChanged(old, new, "count") THEN <<"syncRef">> ELSE <<>>)
            \o (IF first THEN <<"refInterval">> ELSE <<>>)
      [] ex = "UseEffectExample" ->
            IF first \/ DepsChanged(old, new, "count") THEN <<"title">> ELSE <<>>
      [] ex = "AllThreeEffects" -> <<"effect">>
      [] ex = "CounterHook" ->
            (IF first \/ DepsChanged(old, new, "count") THEN <<"hookTitle">> ELSE <<>>)
            \o (IF first THEN <<"hookMount">> ELSE <<>>)
      [] OTHER -> <<>>

\* document.title = `Count: ${count}`
TitleOf(count) == <<"Count: ", count>>

\* The body of one useEffect callback, on st = [hooks, env, hist].
RunEffect(st, e) ==
    CASE e = "fetch" -> [st EXCEPT !.env.fetch = "pending"]
      [] e = "staleInterval" ->
            [st EXCEPT !.env.interval = TRUE, !.env.closureCount = st.hooks.count]
      [] e \in {"interval", "refInterval"} -> [st EXCEPT !.env.interval = TRUE]
      [] e = "syncRef" -> [st EXCEPT !.hooks.countRef = st.hooks.count]
      [] e = "title" -> [st EXCEPT !.env.title = TitleOf(st.hooks.count)]
      [] e = "hookTitle" ->
            [st EXCEPT !.env.title = TitleOf(st.hooks.count), !.hist.titleRuns = @ + 1]
      [] e = "hookMount" -> [st EXCEPT !.hist.mountRuns = @ + 1]
      [] OTHER -> st

RECURSIVE RunEffects(_, _)
RunEffects(st, es) ==
    IF es = <<>> THEN st ELSE RunEffects(RunEffect(st, Head(es)), Tail(es))

\* An unmount that forgets the cleanups.
RunNoCleanups(ex, st) == st

\* The cleanups of the effects, run at unmount: clearInterval(id) in the
\* timers, the cleanup of the [] effect in CounterHook.
RunCleanups(ex, st) ==
    CASE ex \in TimerExamples -> [st EXCEPT !.env.interval = FALSE]
      [] ex = "CounterHook" -> [st EXCEPT !.hist.cleanupRuns = @ + 1]
      [] OTHER -> st

\* Which insertion / layout effects a commit runs: the [] effects of
\* UseInsertionEffectExample and UseLayoutEffectExample at mount, the
\* effects of a component that uses all three in every commit.
RunsInCommit(ex, ph, first) ==
    \/ ex = "AllThreeEffects"
    \/ ex = "UseInsertionEffectExample" /\ ph = "useInsertionEffect" /\ first
    \/ ex = "UseLayoutEffectExample" /\ ph = "useLayoutEffect" /\ first

\* A commit that runs the layout effects before the DOM is updated.
CommitOrderLayoutFirst == <<"render", "useInsertionEffect", "useLayoutEffect", "dom">>

\* The synchronous part of a commit, in order.
CommitOrder == <<"render", "useInsertionEffect", "dom", "useLayoutEffect">>

CommitTimeline(ex, first) ==
    SelectSeq(CommitOrder,
              LAMBDA ph : ph \in {"render", "dom"} \/ RunsInCommit(ex, ph, first))

\* History: renders, and for CounterHook the renders in which count changed.
HistAfterRender(ex, h, old, new) ==
    IF ex = "CounterHook"
    THEN [h EXCEPT !.renders = @ + 1,
                   !.countChanges = @ + (IF old.count # new.count THEN 1 ELSE 0)]
    ELSE [h EXCEPT !.renders = @ + 1]

\* History of a render caused by the parent.
HistAfterParentRender(ex, h, cells, p) ==
    IF ex \in MemoExamples
    THEN [h EXCEPT !.renders = @ + 1, !.parentRenders = @ + 1,
                   !.prevDeps = MemoDeps(ex, p), !.prevRuns = cells.memo.runs]
    ELSE [h EXCEPT !.renders = @ + 1, !.parentRenders = @ + 1]

----------------------------------------------------------------------------
(* The runtime's steps.                                                    *)

Init ==
    /\ example \in Examples
    /\ life = "new"
    /\ props \in PropsOf(example)
    /\ hooks = InitialHooks(example, props)
    /\ queue = <<>>
    /\ wip = <<>>
    /\ passive = <<>>
    /\ painted = FALSE
    /\ log = <<>>
    /\ env = InitialEnv(example)
    /\ hist = InitialHist(example)
    /\ resource = [status |-> "pending", result |-> "undefined"]
    /\ selector = [hasRun |-> FALSE, lastUser |-> "none", lastResult |-> "none",
                   recomputations |-> 0]

\* Render and commit: the component function runs on the processed cells,
\* the DOM is mutated, and the passive effects are scheduled.
Commit(cells, q, p, first) ==
    LET rendered == RenderBody(example, cells, p, first)
    IN  /\ hooks' = rendered
        /\ queue' = q \o RenderUpdates(example, rendered) \o LayoutUpdates(example, first)
        /\ props' = p
        /\ wip' = <<>>
        /\ passive' = EffectsScheduled(example, hooks, rendered, first)
        /\ painted' = FALSE
        /\ log' = CommitTimeline(example, first)

\* A state setter called by a handler or callback: the updates are queued
\* and a render in progress is interrupted.
Dispatch(us) ==
    /\ queue' = Interrupt(queue, wip) \o us
    /\ wip' = <<>>

Mount ==
    /\ example \in HookExamples
    /\ life = "new"
    /\ life' = "mounted"
    /\ Commit(hooks, queue, props, TRUE)
    /\ hist' = [hist EXCEPT !.renders = @ + 1]
    /\ UNCHANGED <<example, env, resource, selector>>

\* A re-render of the urgent or default lane: one synchronous pass.
Render ==
    /\ life = "mounted"
    /\ queue # <<>>
    /\ passive = <<>>
    /\ NextLane(queue) # "transition"
    /\ LET r == ProcessUpdates(hooks, queue)
       IN  /\ Commit(r.cells, r.queue, props, FALSE)
           /\ hist' = HistAfterRender(example, hist, hooks, r.cells)
    /\ UNCHANGED <<example, life, env, resource, selector>>

\* A transition render starts: it works concurrently, off screen.
BeginTransitionRender ==
    /\ life = "mounted"
    /\ queue # <<>>
    /\ passive = <<>>
    /\ wip = <<>>
    /\ NextLane(queue) = "transition"
    /\ wip' = <<ProcessUpdates(hooks, queue)>>
    /\ UNCHANGED <<example, life, props, hooks, queue, passive, painted, log,
                   env, hist, resource, selector>>

\* The transition render finishes without having been interrupted.
CommitTransition ==
    /\ life = "mounted"
    /\ wip # <<>>
    /\ Commit(wip[1].cells, wip[1].queue, props, FALSE)
    /\ hist' = HistAfterRender(example, hist, hooks, wip[1].cells)
    /\ UNCHANGED <<example, life, env, resource, selector>>

\* The parent re-renders the component, with new props or the same.
ParentRerender ==
    /\ example \in ParentDriven
    /\ life = "mounted"
    /\ queue = <<>>
    /\ passive = <<>>
    /\ hist.parentRenders < MaxParentRenders
    /\ \E p \in PropsOf(example) :
          /\ Commit(hooks, queue, p, FALSE)
          /\ hist' = HistAfterParentRender(example, hist, hooks, props)
    /\ UNCHANGED <<example, life, env, resource, selector>>

Paint ==
    /\ life = "mounted"
    /\ ~painted
    /\ \A i \in DOMAIN queue : queue[i].lane # "layout"
    /\ painted' = TRUE
    /\ log' = Append(log, "paint")
    /\ UNCHANGED <<example, life, props, hooks, queue, wip, passive, env, hist,
                   resource, selector>>

FlushPassiveEffects ==
    /\ life = "mounted"
    /\ passive # <<>>
    /\ painted
    /\ LET st == RunEffects([hooks |-> hooks, env |-> env, hist |-> hist], passive)
       IN  /\ hooks' = st.hooks
           /\ env' = st.env
           /\ hist' = st.hist
    /\ passive' = <<>>
    /\ log' = Append(log, "useEffect")
    /\ UNCHANGED <<example, life, props, queue, wip, painted, resource, selector>>

\* The component is removed: pending passive effects have run, the effect
\* cleanups run, and updates to the unmounted component are dropped.
Unmount ==
    /\ life = "mounted"
    /\ example \in Unmountable
    /\ passive = <<>>
    /\ life' = "unmounted"
    /\ LET st == RunCleanups(example, [hooks |-> hooks, env |-> env, hist |-> hist])
       IN  /\ hooks' = st.hooks
           /\ env' = st.env
           /\ hist' = st.hist
    /\ queue' = <<>>
    /\ wip' = <<>>
    /\ UNCHANGED <<example, props, passive, painted, log, resource, selector>>

----------------------------------------------------------------------------
(* Automatic batching: AutoBatchingExample, CounterNew, CounterAsync.      *)

\* AutoBatchingExample.handleClick and its fetch(...).then callback.
AbeUpdates(l) == <<Upd("count", "inc", 0, l), Upd("flag", "not", 0, l)>>

\* CounterNew.handleClick.
CounterNewUpdates == <<Upd("count1", "inc", 0, "sync"), Upd("count2", "inc", 0, "sync")>>

\* The setTimeout callback of CounterAsync.
CounterAsyncUpdates == <<Upd("count", "inc", 0, "default"), Upd("count", "inc", 0, "default")>>

AbeHandleClick ==
    /\ example = "AutoBatchingExample"
    /\ life = "mounted"
    /\ hist.events < MaxEvents
    /\ Dispatch(AbeUpdates("sync"))
    /\ hist' = [hist EXCEPT !.events = @ + 1, !.batches = @ + 1]
    /\ UNCHANGED <<example, life, props, hooks, passive, painted, log, env,
                   resource, selector>>

AbeFetchResolves ==
    /\ example = "AutoBatchingExample"
    /\ env.fetch = "pending"
    /\ env' = [env EXCEPT !.fetch = "resolved"]
    /\ Dispatch(AbeUpdates("default"))
    /\ hist' = [hist EXCEPT !.batches = @ + 1]
    /\ UNCHANGED <<example, life, props, hooks, passive, painted, log,
                   resource, selector>>

\* fetch rejects: .then(onFulfilled) does not call the callback.
AbeFetchRejects ==
    /\ example = "AutoBatchingExample"
    /\ env.fetch = "pending"
    /\ env' = [env EXCEPT !.fetch = "rejected"]
    /\ UNCHANGED <<example, life, props, hooks, queue, wip, passive, painted,
                   log, hist, resource, selector>>

CounterNewHandleClick ==
    /\ example = "CounterNew"
    /\ life = "mounted"
    /\ hist.events < MaxEvents
    /\ Dispatch(CounterNewUpdates)
    /\ hist' = [hist EXCEPT !.events = @ + 1, !.batches = @ + 1]
    /\ UNCHANGED <<example, life, props, hooks, passive, painted, log, env,
                   resource, selector>>

\* CounterAsync.handleClick only starts a timeout.
CounterAsyncHandleClick ==
    /\ example = "CounterAsync"
    /\ life = "mounted"
    /\ hist.events < MaxEvents
    /\ env' = [env EXCEPT !.timeouts = @ + 1]
    /\ hist' = [hist EXCEPT !.events = @ + 1]
    /\ UNCHANGED <<example, life, props, hooks, queue, wip, passive, painted,
                   log, resource, selector>>

CounterAsyncTimeoutFires ==
    /\ example = "CounterAsync"
    /\ life = "mounted"
    /\ env.timeouts > 0
    /\ env' = [env EXCEPT !.timeouts = @ - 1]
    /\ Dispatch(CounterAsyncUpdates)
    /\ hist' = [hist EXCEPT !.batches = @ + 1]
    /\ UNCHANGED <<example, life, props, hooks, passive, painted, log,
                   resource, selector>>

----------------------------------------------------------------------------
(* Timers: TimerStale, TimerFixed, Timer, TimerWithRef.                    *)

\* Every tick dispatches a functional update.
TickUpdateFunctional(ex, cells, e) == Upd(CountHook(ex), "inc", 0, "default")

\* The update one interval tick dispatches:
\*   TimerStale    setCount(count + 1), count captured by the mount effect
\*   TimerFixed    setCount(prev => prev + 1)
\*   Timer         setSeconds(s => s + 1)
\*   TimerWithRef  setCount(countRef.current + 1)
TickUpdate(ex, cells, e) ==
    CASE ex = "TimerStale" -> Upd("count", "set", e.closureCount + 1, "default")
      [] ex = "TimerWithRef" -> Upd("count", "set", cells.countRef + 1, "default")
      [] OTHER -> Upd(CountHook(ex), "inc", 0, "default")

\* The interval fires. After unmount a setState is a no-op.
Tick ==
    /\ example \in TimerExamples
    /\ env.interval
    /\ hist.events < MaxEvents
    /\ IF life = "mounted"
       THEN /\ Dispatch(<<TickUpdate(example, hooks, env)>>)
            /\ hist' = [hist EXCEPT !.events = @ + 1]
       ELSE /\ hist' = [hist EXCEPT !.events = @ + 1, !.lateTicks = @ + 1]
            /\ UNCHANGED <<queue, wip>>
    /\ UNCHANGED <<example, life, props, hooks, passive, painted, log, env,
                   resource, selector>>

----------------------------------------------------------------------------
(* Transitions and deferred values: TransitionExample, SearchBox,          *)
(* ProductSearch, SearchDeferred.                                          *)

\* The value of the latest input change ("" before any).
LastTyped == IF hist.typed = <<>> THEN <<>> ELSE hist.typed[Len(hist.typed)]

\* handleChange / handleInput, for the g-th input change:
\*   setQuery(value)                               urgent
\*   startTransition(() => { setList(filtered) })  non-urgent
\* useTransition sets isPending urgently when the transition starts and
\* clears it in the transition itself. queryGen and listGen are history:
\* the number of the input change a committed query / list comes from.
HandleChangeUpdates(ex, p, value, g) ==
    << Upd("query", "set", value, "sync"),
       Upd("queryGen", "set", g, "sync"),
       Upd("isPending", "set", TRUE, "sync"),
       Upd("isPending", "set", FALSE, "transition"),
       Upd(ListHook(ex), "set", FilterList(ex, p, value), "transition"),
       Upd("listGen", "set", g, "transition") >>

HandleChange ==
    /\ example \in TransitionExamples
    /\ life = "mounted"
    /\ hist.events < MaxEvents
    /\ \E value \in InputValues :
          /\ value # LastTyped
          /\ Dispatch(HandleChangeUpdates(example, props, value, hist.events + 1))
          /\ hist' = [hist EXCEPT !.events = @ + 1, !.typed = Append(@, value)]
    /\ UNCHANGED <<example, life, props, hooks, passive, painted, log, env,
                   resource, selector>>

\* SearchDeferred: onChange={(e) => setQuery(e.target.value)}
DeferredOnChange ==
    /\ example = "SearchDeferred"
    /\ life = "mounted"
    /\ hist.events < MaxEvents
    /\ \E value \in InputValues :
          /\ value # LastTyped
          /\ Dispatch(<<Upd("query", "set", value, "sync")>>)
          /\ hist' = [hist EXCEPT !.events = @ + 1, !.typed = Append(@, value)]
    /\ UNCHANGED <<example, life, props, hooks, passive, painted, log, env,
                   resource, selector>>

----------------------------------------------------------------------------
(* Effects: UseEffectExample, the component of Q3 that uses all three      *)
(* effect hooks, CounterHook.                                              *)

\* onClick={() => setCount((c) => c + 1)}
ClickIncrement ==
    /\ example \in ClickCounters
    /\ life = "mounted"
    /\ hist.events < MaxEvents
    /\ Dispatch(<<Upd("count", "inc", 0, "sync")>>)
    /\ hist' = [hist EXCEPT !.events = @ + 1]
    /\ UNCHANGED <<example, life, props, hooks, passive, painted, log, env,
                   resource, selector>>

----------------------------------------------------------------------------
(* selectUserName: createSelector([selectUser], (user) => user.name).      *)

selectUser(state) == state.user

\* One call selectUserName(state): the result function runs when the input
\* selector's value is not the one of the previous call (by reference).
selectUserName(cache, state) ==
    IF ~cache.hasRun \/ selectUser(state) # cache.lastUser
    THEN [hasRun |-> TRUE, lastUser |-> selectUser(state),
          lastResult |-> UserObject(selectUser(state)).name,
          recomputations |-> cache.recomputations + 1]
    ELSE cache

\* A redux action is reduced: another user object, or another transaction.
StoreDispatch ==
    /\ example = "selectUserName"
    /\ hist.events < MaxEvents
    /\ \/ \E u \in UserRefs : env' = [env EXCEPT !.store.user = u]
       \/ env' = [env EXCEPT !.store.txn = @ + 1]
    /\ hist' = [hist EXCEPT !.events = @ + 1]
    /\ UNCHANGED <<example, life, props, hooks, queue, wip, passive, painted,
                   log, resource, selector>>

\* mapStateToProps2(state) calls selectUserName(state).
MapStateToProps ==
    /\ example = "selectUserName"
    /\ hist.renders < MaxEvents + 1
    /\ selector' = selectUserName(selector, env.store)
    /\ hist' = [hist EXCEPT !.renders = @ + 1,
                            !.callUser = env.store.user,
                            !.prevUser = hist.callUser,
                            !.prevRecomputations = selector.recomputations]
    /\ UNCHANGED <<example, life, props, hooks, queue, wip, passive, painted,
                   log, env, resource>>

----------------------------------------------------------------------------
(* fetchUser(): the Suspense resource of AppWithData.                      *)

\* What the server can send, parsed.
UserData == {"user1", "user2"}

\* (data) => { status = "success"; result = data; }
OnData(res, data) == [status |-> "success", result |-> data]

\* An error callback that stores the error and leaves the status alone.
OnErrorKeepsStatus(res, err) == [res EXCEPT !.result = err]

\* (err) => { status = "error"; result = err; }
OnError(res, err) == [status |-> "error", result |-> err]

\* read(): what it throws or returns.
Read(res) ==
    CASE res.status = "pending" -> [kind |-> "throw", value |-> "suspender"]
      [] res.status = "error" -> [kind |-> "throw", value |-> res.result]
      [] res.status = "success" -> [kind |-> "return", value |-> res.result]
      [] OTHER -> [kind |-> "return", value |-> "undefined"]

\* fetch(...) fulfils with a response: res.json() starts.
FetchResponds ==
    /\ example = "AppWithData"
    /\ env.chain = "fetching"
    /\ env' = [env EXCEPT !.chain = "parsing"]
    /\ UNCHANGED <<example, life, props, hooks, queue, wip, passive, painted,
                   log, hist, resource, selector>>

\* fetch(...) rejects: the rejection passes the first then and reaches the
\* error callback of the second.
FetchRejects ==
    /\ example = "AppWithData"
    /\ env.chain = "fetching"
    /\ env' = [env EXCEPT !.chain = "fetchRejected"]
    /\ resource' = OnError(resource, "TypeError")
    /\ hist' = [hist EXCEPT !.settles = @ + 1]
    /\ UNCHANGED <<example, life, props, hooks, queue, wip, passive, painted,
                   log, selector>>

\* res.json() fulfils with the parsed body.
JsonResolves ==
    /\ example = "AppWithData"
    /\ env.chain = "parsing"
    /\ env' = [env EXCEPT !.chain = "fulfilled"]
    /\ \E data \in UserData : resource' = OnData(resource, data)
    /\ hist' = [hist EXCEPT !.settles = @ + 1]
    /\ UNCHANGED <<example, life, props, hooks, queue, wip, passive, painted,
                   log, selector>>

\* res.json() rejects: the body is not JSON.
JsonRejects ==
    /\ example = "AppWithData"
    /\ env.chain = "parsing"
    /\ env' = [env EXCEPT !.chain = "jsonRejected"]
    /\ resource' = OnError(resource, "SyntaxError")
    /\ hist' = [hist EXCEPT !.settles = @ + 1]
    /\ UNCHANGED <<example, life, props, hooks, queue, wip, passive, painted,
                   log, selector>>

\* User renders: const user = userResource.read().
UserRender ==
    /\ example = "AppWithData"
    /\ hist.renders < MaxEvents + 1
    /\ LET r == Read(resource)
       IN  hist' = [hist EXCEPT
                      !.renders = @ + 1,
                      !.lastRead = [kind |-> r.kind, value |-> r.value, chain |-> env.chain],
                      !.firstReturn = IF @ = "none" /\ r.kind = "return" THEN r.value ELSE @]
    /\ UNCHANGED <<example, life, props, hooks, queue, wip, passive, painted,
                   log, env, resource, selector>>

----------------------------------------------------------------------------

Next ==
    \/ Mount
    \/ Render
    \/ BeginTransitionRender
    \/ CommitTransition
    \/ ParentRerender
    \/ Paint
    \/ FlushPassiveEffects
    \/ Unmount
    \/ AbeHandleClick
    \/ AbeFetchResolves
    \/ AbeFetchRejects
    \/ CounterNewHandleClick
    \/ CounterAsyncHandleClick
    \/ CounterAsyncTimeoutFires
    \/ Tick
    \/ HandleChange
    \/ DeferredOnChange
    \/ ClickIncrement
    \/ StoreDispatch
    \/ MapStateToProps
    \/ FetchResponds
    \/ FetchRejects
    \/ JsonResolves
    \/ JsonRejects
    \/ UserRender

Spec == Init /\ [][Next]_vars

\* The scheduler runs the work it has: renders, paints and effect flushes
\* are not postponed forever. Events (clicks, typing, ticks) may stop.
Fairness ==
    /\ WF_vars(Mount)
    /\ WF_vars(Render)
    /\ WF_vars(BeginTransitionRender)
    /\ WF_vars(CommitTransition)
    /\ WF_vars(Paint)
    /\ WF_vars(FlushPassiveEffects)

FairSpec == Spec /\ Fairness

----------------------------------------------------------------------------
(* The claims.                                                             *)

\* C1: automatic batching. All updates one callback dispatches (a click
\* handler, a fetch(...).then callback, a setTimeout callback) are applied
\* in one re-render: no committed render shows count incremented without
\* flag toggled, or count1 ahead of count2; there are no more re-renders
\* than callbacks; each firing of CounterAsync's timeout raises count by 2.
C1_BatchedUpdatesCommitTogether ==
    /\ example = "AutoBatchingExample" =>
          /\ (hooks.count % 2 = 1) <=> hooks.flag
          /\ hist.renders <= hist.batches + 1
          /\ queue = <<>> => hooks.count = hist.batches
    /\ example = "CounterNew" =>
          /\ hooks.count1 = hooks.count2
          /\ hist.renders <= hist.batches + 1
          /\ queue = <<>> => hooks.count1 = hist.batches
    /\ example = "CounterAsync" =>
          /\ hooks.count % 2 = 0
          /\ hist.renders <= hist.batches + 1
          /\ hooks.count + Len(queue) = 2 * hist.batches

C1_Witness ==
    /\ example = "AutoBatchingExample"
    /\ env.fetch = "resolved"
    /\ hist.batches = 2
    /\ hooks.count = 2
    /\ ~hooks.flag

\* C2: in TimerStale every tick reads the count captured by the mount-only
\* effect, which is 0, and so calls setCount(1): count never exceeds 1.
C2_StaleCountAtMostOne ==
    example = "TimerStale" =>
        /\ env.closureCount = 0
        /\ hooks.count <= 1
        /\ \A i \in DOMAIN queue : queue[i].op = "set" /\ queue[i].arg = 1

C2_Witness ==
    /\ example = "TimerStale"
    /\ hist.events >= 2
    /\ queue = <<>>
    /\ hooks.count = 1

\* C3: in TimerFixed and Timer every tick's functional update is applied to
\* the latest state: while mounted, count plus the updates still queued is
\* the number of ticks, so after n ticks have rendered count is n; after
\* unmount the interval is cleared and no tick fires any more.
C3_FunctionalTicksAllCount ==
    example \in FunctionalTimers =>
        /\ life = "mounted" => hooks[CountHook(example)] + Len(queue) = hist.events
        /\ life = "unmounted" =>
              /\ ~env.interval
              /\ hist.lateTicks = 0
              /\ hooks[CountHook(example)] <= hist.events

C3_Witness ==
    /\ example = "Timer"
    /\ life = "unmounted"
    /\ hooks.seconds = 2
    /\ hist.events = 2

\* C4: in TimerWithRef every tick sees the latest committed count through
\* countRef, so after n ticks have rendered count is n, under every
\* interleaving of ticks, renders and the effect that updates countRef.
C4_RefTicksAllCount ==
    (example = "TimerWithRef" /\ life = "mounted" /\ queue = <<>> /\ passive = <<>>)
        => hooks.count = hist.events

\* The value of the g-th input change.
TypedAt(g) == IF g = 0 THEN <<>> ELSE hist.typed[g]

\* C5: transitions. The urgent setQuery of an input change is committed no
\* later than the setList / setFiltered of the same change (the committed
\* list is never filtered by a value the committed query has not reached),
\* and isPending is true in every committed render in which the list is
\* behind the query.
C5_UrgentBeforeTransition ==
    (example \in TransitionExamples /\ life = "mounted") =>
        /\ hooks.listGen <= hooks.queryGen
        /\ hooks.listGen < hooks.queryGen => hooks.isPending
        /\ hooks.query = TypedAt(hooks.queryGen)
        /\ hooks[ListHook(example)] = FilterList(example, props, TypedAt(hooks.listGen))

C5_Witness ==
    /\ example = "ProductSearch"
    /\ hooks.queryGen = 2
    /\ hooks.listGen = 1
    /\ hooks.isPending
    /\ Len(hooks.filtered) < Len(props.products)

Settled ==
    /\ example \in TransitionExamples =>
          /\ life = "mounted"
          /\ hooks.query = LastTyped
          /\ hooks[ListHook(example)] = FilterList(example, props, LastTyped)
          /\ ~hooks.isPending
    /\ example = "SearchDeferred" =>
          /\ life = "mounted"
          /\ hooks.query = LastTyped
          /\ hooks.deferredQuery = hooks.query

\* C6: a transition's work is deprioritised, never cancelled, and a deferred
\* value is delayed, never dropped: once the input changes stop, a render
\* is eventually committed in which the list is the source list filtered by
\* the last typed value (deferredQuery equals query in SearchDeferred) and
\* isPending is false, and it stays so.
C6_EventuallySettled == <>[]Settled

C6_Witness ==
    /\ example = "TransitionExample"
    /\ hist.events = MaxEvents
    /\ hooks.listGen = MaxEvents
    /\ ~hooks.isPending
    /\ hooks.list = FilterList(example, props, LastTyped)
    /\ Len(hooks.list) < ListLength

\* The place of a phase in the claimed order.
PhaseRank(ph) ==
    CASE ph = "render" -> 0
      [] ph = "useInsertionEffect" -> 1
      [] ph = "dom" -> 2
      [] ph = "useLayoutEffect" -> 3
      [] ph = "paint" -> 4
      [] ph = "useEffect" -> 5

C8_LifecycleEquivalents ==
    example = "CounterHook" =>
        /\ hist.mountRuns = (IF life = "new" \/ "hookMount" \in {passive[i] : i \in DOMAIN passive}
                             THEN 0 ELSE 1)
        /\ hist.cleanupRuns = (IF life = "unmounted" THEN 1 ELSE 0)
        /\ hist.titleRuns + (IF "hookTitle" \in {passive[i] : i \in DOMAIN passive} THEN 1 ELSE 0)
              = (IF life = "new" THEN 0 ELSE 1 + hist.countChanges)
        /\ (life # "new" /\ passive = <<>>) => env.title = TitleOf(hooks.count)

C8_Witness ==
    /\ example = "CounterHook"
    /\ life = "unmounted"
    /\ hooks.count = 2
    /\ hist.parentRenders >= 1
    /\ hist.titleRuns = 3
    /\ hist.cleanupRuns = 1

\* C9: the resource of fetchUser(). read() throws the suspender exactly
\* while the fetch chain has not settled, throws the stored error exactly
\* when it rejected, and returns the fetched data exactly when it
\* succeeded; the status leaves "pending" at most once, and every read()
\* that returns returns the same value.
C9_ReadFollowsFetch ==
    example = "AppWithData" =>
        /\ hist.settles <= 1
        /\ (resource.status = "pending") <=> (hist.settles = 0)
        /\ (resource.status = "pending") <=> (env.chain \in {"fetching", "parsing"})
        /\ hist.lastRead.kind # "none" =>
              LET r == hist.lastRead
              IN  /\ (r.kind = "throw" /\ r.value = "suspender")
                        <=> (r.chain \in {"fetching", "parsing"})
                  /\ (r.kind = "throw" /\ r.value = "TypeError") <=> (r.chain = "fetchRejected")
                  /\ (r.kind = "throw" /\ r.value = "SyntaxError") <=> (r.chain = "jsonRejected")
                  /\ (r.kind = "return") <=> (r.chain = "fulfilled")
                  /\ r.kind = "return" =>
                        /\ r.value \in UserData
                        /\ r.value = resource.result
                        /\ r.value = hist.firstReturn

C9_Witness ==
    /\ example = "AppWithData"
    /\ hist.renders = 3
    /\ hist.lastRead.kind = "return"
    /\ hist.firstReturn = "user2"

\* C10: memoised values recompute only if their dependencies change. In
\* ExpensiveList, ExpensiveCalculation and List the factory runs in a
\* render exactly when it is the first render or a dependency differs from
\* the previous render's, and the value used is what computing from the
\* current props gives; selectUserName runs its result function exactly
\* when state.user is not the object of the previous call, and returns the
\* name of the user it was called with.
C10_MemoRecomputesOnDepsChange ==
    /\ (example \in MemoExamples /\ life = "mounted") =>
          /\ hooks.memo.value = MemoFactory(example, props)
          /\ hooks.memo.runs - hist.prevRuns =
                (IF hist.renders = 1 \/ MemoDeps(example, props) # hist.prevDeps
                 THEN 1 ELSE 0)
    /\ (example = "selectUserName" /\ hist.callUser # "none") =>
          /\ selector.lastResult = UserObject(hist.callUser).name
          /\ selector.recomputations - hist.prevRecomputations =
                (IF hist.callUser # hist.prevUser THEN 1 ELSE 0)

C10_Witness ==
    /\ example = "List"
    /\ hist.parentRenders = 2
    /\ hooks.memo.runs = 2
    /\ props.filter = <<"b">>
    /\ Len(hooks.memo.value) = 2

====
